---- MODULE Spec2Model ----
(***************************************************************************)
(* Model of tensorflow/compiler/mlir/quantization/stablehlo/cc/export.cc:  *)
(* GetNodeName, FindFilePrefixTensorName, CreateExportedModel,             *)
(* AddExportPasses and CreateSaverDef.                                     *)
(*                                                                         *)
(* Strings that the code searches or concatenates (node names, markers,    *)
(* tensor names) are sequences of one-character strings over a small       *)
(* alphabet; strings the code only compares for equality (operation tags,  *)
(* attribute keys, index paths, pass names) are atomic.                    *)
(***************************************************************************)
EXTENDS Integers, Sequences, FiniteSets, TLC

VARIABLES op, args, ret, caller_graph_def, pm

vars == <<op, args, ret, caller_graph_def, pm>>

(* ------------------------------ bounds -------------------------------- *)
MaxNameLen == 3
MaxControlRets == 2
MaxMarkerLen == 2
MaxNodes == 2
MaxIndexPaths == 2
MaxAssets == 2
MaxPriorPasses == 1

(* ----------------------------- strings -------------------------------- *)
\* Two letters that differ only in case, so that case-sensitivity is observable.
Alphabet == {"r", "R"}

SeqsUpTo(S, n) == UNION {[1..k -> S] : k \in 0..n}

Strings(n) == SeqsUpTo(Alphabet, n)

\* absl::StrContains(haystack, needle): needle occurs at some offset.
StrContains(haystack, needle) ==
  \E i \in 1..(Len(haystack) - Len(needle) + 1) :
     SubSeq(haystack, i, i + Len(needle) - 1) = needle

\* absl::StrCat(a, b)
StrCat(a, b) == a \o b

RECURSIVE StrJoin(_, _)
\* absl::StrJoin(fields, sep)
StrJoin(fields, sep) ==
  IF Len(fields) = 0 THEN <<>>
  ELSE IF Len(fields) = 1 THEN fields[1]
  ELSE fields[1] \o sep \o StrJoin(Tail(fields), sep)

(* ------------------------ reserved constants -------------------------- *)
\* The values of the two control-output markers are set outside this file;
\* they are modelled as two distinct two-character strings that overlap.
kTfSavedModelInitializerRestoreType == <<"R", "r">>
kTfQuantSaveOpName == <<"r", "R">>
kTfFilePrefix == "__tf_file_prefix"
kTfSavedModelIndexPathAttr == "tf_saved_model.index_path"
kArgOp == "_Arg"

(* ----------------------------- GetNodeName ---------------------------- *)
RECURSIVE GetNodeNameFrom(_, _, _)
\* The loop of GetNodeName, from position i on.
GetNodeNameFrom(control_ret_node_names, contains, i) ==
  IF i > Len(control_ret_node_names) THEN <<>>
  ELSE IF StrContains(control_ret_node_names[i], contains)
       THEN control_ret_node_names[i]
       ELSE GetNodeNameFrom(control_ret_node_names, contains, i + 1)

\* Variant: keeps scanning and returns the last matching name.
GetNodeName_LastMatch(control_ret_node_names, contains) ==
  LET matches == {i \in 1..Len(control_ret_node_names) :
                    StrContains(control_ret_node_names[i], contains)}
  IN IF matches = {} THEN <<>>
     ELSE control_ret_node_names[CHOOSE i \in matches : \A j \in matches : j <= i]

GetNodeName(control_ret_node_names, contains) ==
  GetNodeNameFrom(control_ret_node_names, contains, 1)

(* ----------------------- FindFilePrefixTensorName --------------------- *)
\* absl::c_find(index_paths, value) != index_paths.end()
c_find(index_paths, value) == \E k \in 1..Len(index_paths) : index_paths[k] = value

RECURSIVE FindFilePrefixTensorNameFrom(_, _)
\* The loop of FindFilePrefixTensorName, from node i on.
FindFilePrefixTensorNameFrom(graph_def, i) ==
  IF i > Len(graph_def) THEN <<>>
  ELSE LET node_def == graph_def[i] IN
       IF /\ node_def.op = kArgOp
          /\ kTfSavedModelIndexPathAttr \in DOMAIN node_def.attr
          /\ c_find(node_def.attr[kTfSavedModelIndexPathAttr].list_s, kTfFilePrefix)
       THEN StrCat(node_def.name, <<":", "0">>)
       ELSE FindFilePrefixTensorNameFrom(graph_def, i + 1)

RECURSIVE FindFrom_SoleIndexPath(_, _)
FindFrom_SoleIndexPath(graph_def, i) ==
  IF i > Len(graph_def) THEN <<>>
  ELSE LET node_def == graph_def[i] IN
       IF /\ node_def.op = kArgOp
          /\ kTfSavedModelIndexPathAttr \in DOMAIN node_def.attr
          /\ node_def.attr[kTfSavedModelIndexPathAttr].list_s = <<kTfFilePrefix>>
       THEN StrCat(node_def.name, <<":", "0">>)
       ELSE FindFrom_SoleIndexPath(graph_def, i + 1)

\* Variant: requires the index-path list to be exactly ["__tf_file_prefix"].
FindFilePrefixTensorName_SoleIndexPath(graph_def) ==
  FindFrom_SoleIndexPath(graph_def, 1)

RECURSIVE FindFrom_AnyOp(_, _)
FindFrom_AnyOp(graph_def, i) ==
  IF i > Len(graph_def) THEN <<>>
  ELSE LET node_def == graph_def[i] IN
       IF /\ kTfSavedModelIndexPathAttr \in DOMAIN node_def.attr
          /\ c_find(node_def.attr[kTfSavedModelIndexPathAttr].list_s, kTfFilePrefix)
       THEN StrCat(node_def.name, <<":", "0">>)
       ELSE FindFrom_AnyOp(graph_def, i + 1)

\* Variant: omits the test that the node is an "_Arg" node.
FindFilePrefixTensorName_AnyOp(graph_def) == FindFrom_AnyOp(graph_def, 1)

FindFilePrefixTensorName(graph_def) == FindFilePrefixTensorNameFrom(graph_def, 1)

(* ------------------------------ SaverDef ------------------------------ *)
Nullopt == [has_value |-> FALSE]
Some(v) == [has_value |-> TRUE, value |-> v]

\* SaverDef{}: a freshly constructed message.
DefaultSaverDef ==
  [version |-> "LEGACY", filename_tensor_name |-> <<>>,
   restore_op_name |-> <<>>, save_tensor_name |-> <<>>]

\* absl::c_all_of / absl::c_none_of with is_empty_predicate
c_all_of_empty(fields) == \A k \in 1..Len(fields) : fields[k] = <<>>
c_none_of_empty(fields) == \A k \in 1..Len(fields) : fields[k] # <<>>

ErrorPrefix ==
  <<"Failed to create SaverDef. Fields should be either all empty strings or all non-empty strings. Got fields: ">>

\* The three branches of CreateSaverDef, shared by the variants below.
SaverDefNone == [ok |-> TRUE, value |-> Nullopt]
SaverDefSome(fields, suffix) ==
  [ok |-> TRUE,
   value |-> Some([version |-> "V2", filename_tensor_name |-> fields[1],
                   restore_op_name |-> fields[2],
                   save_tensor_name |-> StrCat(fields[3], suffix)])]
SaverDefError(fields) ==
  [ok |-> FALSE, code |-> "INTERNAL",
   message |-> StrCat(ErrorPrefix, StrJoin(fields, <<",">>))]
SaverDefFields(control_ret_node_names, graph_def) ==
  <<FindFilePrefixTensorName(graph_def),
    GetNodeName(control_ret_node_names, kTfSavedModelInitializerRestoreType),
    GetNodeName(control_ret_node_names, kTfQuantSaveOpName)>>

\* Variant: yields no descriptor as soon as any field is empty.
CreateSaverDef_AnyEmptyIsNone(control_ret_node_names, graph_def) ==
  LET fields == SaverDefFields(control_ret_node_names, graph_def)
  IN IF \E k \in 1..3 : fields[k] = <<>> THEN SaverDefNone
     ELSE SaverDefSome(fields, <<":", "0">>)

\* Variant: forgets the ":0" suffix of the save tensor name.
CreateSaverDef_NoTensorSuffix(control_ret_node_names, graph_def) ==
  LET fields == SaverDefFields(control_ret_node_names, graph_def)
  IN IF c_all_of_empty(fields) THEN SaverDefNone
     ELSE IF c_none_of_empty(fields) THEN SaverDefSome(fields, <<>>)
     ELSE SaverDefError(fields)

\* Variant: treats three empty fields as an inconsistency.
CreateSaverDef_AllEmptyIsError(control_ret_node_names, graph_def) ==
  LET fields == SaverDefFields(control_ret_node_names, graph_def)
  IN IF c_none_of_empty(fields) THEN SaverDefSome(fields, <<":", "0">>)
     ELSE SaverDefError(fields)

\* Variant: builds a descriptor as soon as any field is non-empty.
CreateSaverDef_AnyNonEmptyIsSome(control_ret_node_names, graph_def) ==
  LET fields == SaverDefFields(control_ret_node_names, graph_def)
  IN IF c_all_of_empty(fields) THEN SaverDefNone
     ELSE SaverDefSome(fields, <<":", "0">>)

CreateSaverDef(control_ret_node_names, graph_def) ==
  LET filename_tensor_name == FindFilePrefixTensorName(graph_def)
      restore_op_name ==
        GetNodeName(control_ret_node_names, kTfSavedModelInitializerRestoreType)
      save_node_name == GetNodeName(control_ret_node_names, kTfQuantSaveOpName)
      fields == <<filename_tensor_name, restore_op_name, save_node_name>>
  IN IF c_all_of_empty(fields)
     THEN [ok |-> TRUE, value |-> Nullopt]
     ELSE IF c_none_of_empty(fields)
     THEN [ok |-> TRUE,
           value |-> Some([version |-> "V2",
                           filename_tensor_name |-> filename_tensor_name,
                           restore_op_name |-> restore_op_name,
                           save_tensor_name |-> StrCat(save_node_name, <<":", "0">>)])]
     ELSE [ok |-> FALSE, code |-> "INTERNAL",
           message |-> StrCat(ErrorPrefix, StrJoin(fields, <<",">>))]

(* -------------------------- CreateExportedModel ----------------------- *)
\* protobuf Map::insert(first, last): keys already present keep their value.
MapInsertRange(map, src) ==
  [k \in (DOMAIN map) \cup (DOMAIN src) |->
     IF k \in DOMAIN map THEN map[k] ELSE src[k]]

RECURSIVE AddAll(_, _, _)
\* The loop that appends every asset_file_def to the repeated field.
AddAll(repeated, asset_file_defs, i) ==
  IF i > Len(asset_file_defs) THEN repeated
  ELSE AddAll(Append(repeated, asset_file_defs[i]), asset_file_defs, i + 1)

EmptyMap == [k \in {} |-> <<>>]

\* ExportedModel exported_model{};
EmptyExportedModel ==
  [graph_def |-> <<>>, init_node_name |-> <<>>, checkpoint_dir |-> <<>>,
   function_aliases |-> EmptyMap, asset_file_defs |-> <<>>,
   has_saver_def |-> FALSE, saver_def |-> DefaultSaverDef]

RECURSIVE Reverse(_)
Reverse(q) == IF q = <<>> THEN <<>> ELSE Append(Reverse(Tail(q)), Head(q))

\* Variant: inserts each asset descriptor at the front of the repeated field.
CreateExportedModel_AssetsReversed(graph_def, init_node_name, checkpoint_dir, saver_def, function_aliases, asset_file_defs) ==
  [graph_def |-> graph_def, init_node_name |-> init_node_name,
   checkpoint_dir |-> checkpoint_dir, function_aliases |-> function_aliases,
   asset_file_defs |-> Reverse(asset_file_defs),
   has_saver_def |-> saver_def # Nullopt,
   saver_def |-> IF saver_def # Nullopt THEN saver_def.value ELSE DefaultSaverDef]

\* The returned message.
CreateExportedModel(graph_def, init_node_name, checkpoint_dir, saver_def, function_aliases, asset_file_defs) ==
  LET m0 == EmptyExportedModel
      m1 == [m0 EXCEPT !.graph_def = graph_def,
                       !.init_node_name = init_node_name,
                       !.checkpoint_dir = checkpoint_dir,
                       !.function_aliases =
                          MapInsertRange(m0.function_aliases, function_aliases),
                       !.asset_file_defs =
                          AddAll(m0.asset_file_defs, asset_file_defs, 1)]
  IN IF saver_def # Nullopt
     THEN [m1 EXCEPT !.has_saver_def = TRUE, !.saver_def = saver_def.value]
     ELSE m1

\* The caller's GraphDef object after the call.  The parameter graph_def is a
\* named rvalue reference, hence an lvalue in the assignment
\* `*exported_model.mutable_graph_def() = graph_def`: the copy assignment
\* operator runs and the source object keeps its contents.
GraphDefAfterCreateExportedModel(graph_def) == graph_def

(* ---------------------------- AddExportPasses ------------------------- *)
addPass(p, name) == Append(p, [pass |-> name, anchor |-> "module"])
addNestedPass(p, name) == Append(p, [pass |-> name, anchor |-> "func.func"])

\* Variant: merges the save function before the initializer functions.
AddExportPasses_SaveBeforeInitializer(pm0, duplicate_shape_determining_constants) ==
  LET p0 == IF duplicate_shape_determining_constants
            THEN addNestedPass(pm0, "DuplicateShapeDeterminingConstantsPass")
            ELSE pm0
      p1 == addPass(p0, "InsertMainFunctionPass")
      p2 == addPass(p1, "LiftHashTableOpsAsArgsPass")
      p3 == addNestedPass(p2, "FunctionalToExecutorDialectConversionPass")
      p4 == addPass(p3, "BreakUpIslandsPass")
      p5 == addPass(p4, "MergeSaveFunctionOpsToMainPass")
      p6 == addPass(p5, "MergeInitializerFunctionOpsToMainPass")
      p7 == addNestedPass(p6, "MergeDuplicateResourceOpsPass")
  IN addPass(p7, "StripNoinlineAttributePass")

AddExportPasses(pm0, duplicate_shape_determining_constants) ==
  LET p0 == IF duplicate_shape_determining_constants
            THEN addNestedPass(pm0, "DuplicateShapeDeterminingConstantsPass")
            ELSE pm0
      p1 == addPass(p0, "InsertMainFunctionPass")
      p2 == addPass(p1, "LiftHashTableOpsAsArgsPass")
      p3 == addNestedPass(p2, "FunctionalToExecutorDialectConversionPass")
      p4 == addPass(p3, "BreakUpIslandsPass")
      p5 == addPass(p4, "MergeInitializerFunctionOpsToMainPass")
      p6 == addPass(p5, "MergeSaveFunctionOpsToMainPass")
      p7 == addNestedPass(p6, "MergeDuplicateResourceOpsPass")
  IN addPass(p7, "StripNoinlineAttributePass")

(* ------------------------------ inputs -------------------------------- *)
ControlRetNodeNames == SeqsUpTo(Strings(MaxNameLen), MaxControlRets)

\* Index-path lists of at most p entries.
IndexPathLists(p) == SeqsUpTo({kTfFilePrefix, "other_path"}, p)

\* Attribute maps of a node: no index-path attribute, or one of the lists.
AttrMaps(p) ==
  {EmptyMap} \cup
  {[a \in {kTfSavedModelIndexPathAttr} |-> [list_s |-> l]] : l \in IndexPathLists(p)}

\* Node identifiers are unique within a graph: the i-th node is named by i
\* repetitions of "n".
NodeNameOf(i) == [j \in 1..i |-> "n"]

\* Graphs of at most n nodes whose attribute maps are drawn from attrs.
GraphDefs(n, attrs) ==
  UNION {{[i \in 1..k |-> [name |-> NodeNameOf(i), op |-> f[i].op, attr |-> f[i].attr]] :
            f \in [1..k -> [op : {kArgOp, "Const"}, attr : attrs]]} : k \in 0..n}

\* Control-output names given to CreateSaverDef: one with neither marker, one
\* with the restore marker, one with the save marker, two with both.
SaverControlRetNodeNames ==
  SeqsUpTo({<<"r", "r">>, <<"R", "r">>, <<"r", "R">>, <<"r", "R", "r">>,
            <<"R", "r", "R">>}, MaxControlRets)

SaverDefs ==
  [version : {"LEGACY", "V2"}, filename_tensor_name : {<<>>, <<"r">>},
   restore_op_name : {<<>>, <<"r">>}, save_tensor_name : {<<>>, <<"r">>}]

OptionalSaverDefs == {Nullopt} \cup {Some(s) : s \in SaverDefs}

AliasMaps == UNION {[K -> {"alias_1", "alias_2"}] : K \in SUBSET {"f", "g"}}

AssetFileDefs == SeqsUpTo({"asset_a", "asset_b"}, MaxAssets)

\* Stages a caller may have added to the pass manager beforehand.
PriorPipelines ==
  SeqsUpTo({[pass |-> "InlinerPass", anchor |-> "module"],
            [pass |-> "MarkFunctionsNoinlinePass", anchor |-> "func.func"]},
           MaxPriorPasses)

(* --------------------------- state machine ---------------------------- *)
\* Each behaviour is one call of one of the file's functions on inputs drawn
\* from the bounded sets above.
NoArgs == [none |-> TRUE]

Init ==
  /\ op = "idle"
  /\ args = NoArgs
  /\ ret = NoArgs
  /\ caller_graph_def = <<>>
  /\ pm = <<>>

GetNodeNameCall ==
  /\ op = "idle"
  /\ \E names \in ControlRetNodeNames, contains \in Strings(MaxMarkerLen) :
        /\ op' = "GetNodeName"
        /\ args' = [control_ret_node_names |-> names, contains |-> contains]
        /\ ret' = GetNodeName(names, contains)
        /\ caller_graph_def' = <<>>
        /\ pm' = <<>>

FindFilePrefixTensorNameCall ==
  /\ op = "idle"
  /\ \E g \in GraphDefs(MaxNodes, AttrMaps(MaxIndexPaths)) :
        /\ op' = "FindFilePrefixTensorName"
        /\ args' = [graph_def |-> g]
        /\ ret' = FindFilePrefixTensorName(g)
        /\ caller_graph_def' = g
        /\ pm' = <<>>

CreateSaverDefCall ==
  /\ op = "idle"
  /\ \E names \in SaverControlRetNodeNames, g \in GraphDefs(MaxNodes, AttrMaps(1)) :
        /\ op' = "CreateSaverDef"
        /\ args' = [control_ret_node_names |-> names, graph_def |-> g]
        /\ ret' = CreateSaverDef(names, g)
        /\ caller_graph_def' = g
        /\ pm' = <<>>

CreateExportedModelCall ==
  /\ op = "idle"
  /\ \E g \in GraphDefs(MaxNodes, {EmptyMap}), init \in {<<>>, <<"r">>}, dir \in {<<>>, <<"R">>},
        sd \in OptionalSaverDefs, fa \in AliasMaps, afd \in AssetFileDefs :
        /\ op' = "CreateExportedModel"
        /\ args' = [graph_def |-> g, init_node_name |-> init, checkpoint_dir |-> dir,
                    saver_def |-> sd, function_aliases |-> fa, asset_file_defs |-> afd]
        /\ ret' = CreateExportedModel(g, init, dir, sd, fa, afd)
        /\ caller_graph_def' = GraphDefAfterCreateExportedModel(g)
        /\ pm' = <<>>

AddExportPassesCall ==
  /\ op = "idle"
  /\ \E prior \in PriorPipelines, flag \in BOOLEAN :
        /\ op' = "AddExportPasses"
        /\ args' = [pm |-> prior, duplicate_shape_determining_constants |-> flag]
        /\ ret' = NoArgs
        /\ caller_graph_def' = <<>>
        /\ pm' = AddExportPasses(prior, flag)

Next ==
  \/ GetNodeNameCall
  \/ FindFilePrefixTensorNameCall
  \/ CreateSaverDefCall
  \/ CreateExportedModelCall
  \/ AddExportPassesCall

Spec == Init /\ [][Next]_vars

(* ------------------------ vocabulary of the claims -------------------- *)
\* needle occurs in hay, compared character by character (case-sensitive).
IsSubstring(needle, hay) ==
  \E i \in 0..Len(hay) : \E j \in i..Len(hay) :
     /\ j - i = Len(needle)
     /\ \A k \in 1..Len(needle) : hay[i + k] = needle[k]

\* Positions of the control-output names that contain the marker.
MatchingNames(names, marker) ==
  {i \in 1..Len(names) : IsSubstring(marker, names[i])}

\* Positions of the "_Arg" nodes whose index-path list holds the file-prefix marker.
FilePrefixArgs(g) ==
  {i \in 1..Len(g) :
     /\ g[i].op = "_Arg"
     /\ "tf_saved_model.index_path" \in DOMAIN g[i].attr
     /\ \E k \in 1..Len(g[i].attr["tf_saved_model.index_path"].list_s) :
          g[i].attr["tf_saved_model.index_path"].list_s[k] = "__tf_file_prefix"}

IsLeast(i, S) == i \in S /\ \A j \in S : i <= j

TensorZero == <<":", "0">>

CalledSaver == op = "CreateSaverDef"
HasPrefix == FilePrefixArgs(args.graph_def) # {}
HasRestore ==
  MatchingNames(args.control_ret_node_names, kTfSavedModelInitializerRestoreType) # {}
HasSave == MatchingNames(args.control_ret_node_names, kTfQuantSaveOpName) # {}

(* C1: CreateSaverDef returns an internal error whenever the three signals   *)
(* (file-prefix tensor, restore op, save node) are mixed: at least one is    *)
(* present and at least one is absent.  It returns neither Ok(None) nor a    *)
(* descriptor.                                                               *)
C1_MixedIsInternalError ==
  (CalledSaver /\ (HasPrefix \/ HasRestore \/ HasSave)
               /\ ~(HasPrefix /\ HasRestore /\ HasSave))
    => (ret.ok = FALSE /\ ret.code = "INTERNAL")

C1_Witness ==
  /\ CalledSaver
  /\ HasPrefix /\ ~HasRestore /\ ~HasSave
  /\ Len(args.control_ret_node_names) = MaxControlRets
  /\ ret.ok = FALSE

(* C2: when all three signals are present CreateSaverDef returns             *)
(* Ok(Some(descriptor)) with version V2, the locator's tensor name, the      *)
(* resolver's restore name, and the resolver's save name followed by ":0".   *)
C2_AllPresentBuildsDescriptor ==
  (CalledSaver /\ HasPrefix /\ HasRestore /\ HasSave)
    => /\ ret.ok = TRUE
       /\ ret.value.has_value = TRUE
       /\ ret.value.value.version = "V2"
       /\ \E i \in FilePrefixArgs(args.graph_def) :
            /\ IsLeast(i, FilePrefixArgs(args.graph_def))
            /\ ret.value.value.filename_tensor_name =
                 args.graph_def[i].name \o TensorZero
       /\ \E i \in MatchingNames(args.control_ret_node_names,
                                 kTfSavedModelInitializerRestoreType) :
            /\ IsLeast(i, MatchingNames(args.control_ret_node_names,
                                        kTfSavedModelInitializerRestoreType))
            /\ ret.value.value.restore_op_name = args.control_ret_node_names[i]
       /\ \E i \in MatchingNames(args.control_ret_node_names, kTfQuantSaveOpName) :
            /\ IsLeast(i, MatchingNames(args.control_ret_node_names,
                                        kTfQuantSaveOpName))
            /\ ret.value.value.save_tensor_name =
                 args.control_ret_node_names[i] \o TensorZero

C2_Witness ==
  /\ CalledSaver
  /\ HasPrefix /\ HasRestore /\ HasSave
  /\ ret.ok = TRUE /\ ret.value.has_value = TRUE
  /\ ret.value.value.restore_op_name \o TensorZero # ret.value.value.save_tensor_name

(* C3: with no file-prefix argument node and no control-output name holding  *)
(* the restore or the save marker, CreateSaverDef returns Ok(None).          *)
C3_NonePresentIsOkNone ==
  (CalledSaver /\ ~HasPrefix /\ ~HasRestore /\ ~HasSave)
    => (ret.ok = TRUE /\ ret.value.has_value = FALSE)

C3_Witness ==
  /\ CalledSaver
  /\ ~HasPrefix /\ ~HasRestore /\ ~HasSave
  /\ Len(args.graph_def) > 0 /\ Len(args.control_ret_node_names) > 0
  /\ ret.ok = TRUE /\ ret.value.has_value = FALSE

(* C4: CreateExportedModel moves the graph: after the call the caller's      *)
(* graph object no longer holds the contents now stored in the model.        *)
C4_GraphIsMovedOut ==
  (op = "CreateExportedModel" /\ args.graph_def # <<>>)
    => caller_graph_def # ret.graph_def

(* C5: AddExportPasses appends, in this order, the duplication stage (only   *)
(* when the flag is set), insert-main, lift-hash-tables, functional-to-      *)
(* executor, break-up-islands, merge-initializer, merge-save, merge-         *)
(* duplicate-resource-ops and strip-noinline.                                *)
C5_FixedStages ==
  <<"InsertMainFunctionPass", "LiftHashTableOpsAsArgsPass",
    "FunctionalToExecutorDialectConversionPass", "BreakUpIslandsPass",
    "MergeInitializerFunctionOpsToMainPass", "MergeSaveFunctionOpsToMainPass",
    "MergeDuplicateResourceOpsPass", "StripNoinlineAttributePass">>

C5_PassOrder ==
  op = "AddExportPasses"
    => LET expected == IF args.duplicate_shape_determining_constants
                       THEN <<"DuplicateShapeDeterminingConstantsPass">> \o C5_FixedStages
                       ELSE C5_FixedStages
           n == Len(args.pm)
       IN /\ Len(pm) = n + Len(expected)
          /\ SubSeq(pm, 1, n) = args.pm
          /\ \A i \in 1..Len(expected) : pm[n + i].pass = expected[i]

C5_Witness ==
  /\ op = "AddExportPasses"
  /\ args.duplicate_shape_determining_constants
  /\ Len(args.pm) = MaxPriorPasses
  /\ pm[Len(args.pm) + 1].pass = "DuplicateShapeDeterminingConstantsPass"
  /\ pm[Len(pm)].pass = "StripNoinlineAttributePass"

(* C6: GetNodeName returns the name at the lowest position that contains     *)
(* the marker as a case-sensitive substring, and the empty string when no    *)
(* name contains it.                                                         *)
C6_FirstMatchOrEmpty ==
  op = "GetNodeName"
    => LET m == MatchingNames(args.control_ret_node_names, args.contains)
       IN IF m = {} THEN ret = <<>>
          ELSE \E i \in m : IsLeast(i, m) /\ ret = args.control_ret_node_names[i]

C6_Witness ==
  /\ op = "GetNodeName"
  /\ Len(args.contains) = MaxMarkerLen
  /\ Cardinality(MatchingNames(args.control_ret_node_names, args.contains)) >= 2
  /\ \E i, j \in MatchingNames(args.control_ret_node_names, args.contains) :
       /\ i < j
       /\ args.control_ret_node_names[i] # args.control_ret_node_names[j]
       /\ ret = args.control_ret_node_names[i]

C8_NoFilePrefixArgIsEmpty ==
  (op = "FindFilePrefixTensorName" /\ FilePrefixArgs(args.graph_def) = {})
    => ret = <<>>

C8_Witness ==
  /\ op = "FindFilePrefixTensorName"
  /\ FilePrefixArgs(args.graph_def) = {}
  /\ \E i, j \in 1..Len(args.graph_def) :
       /\ args.graph_def[i].op = "_Arg"
       /\ "tf_saved_model.index_path" \in DOMAIN args.graph_def[i].attr
       /\ Len(args.graph_def[i].attr["tf_saved_model.index_path"].list_s) > 0
       /\ args.graph_def[j].op # "_Arg"
       /\ "tf_saved_model.index_path" \in DOMAIN args.graph_def[j].attr
       /\ \E k \in 1..Len(args.graph_def[j].attr["tf_saved_model.index_path"].list_s) :
            args.graph_def[j].attr["tf_saved_model.index_path"].list_s[k]
              = "__tf_file_prefix"
  /\ ret = <<>>

(* C9: the model returned by CreateExportedModel has its saver_def set       *)
(* exactly when the optional descriptor is present, and then equal to it;    *)
(* its initializer node name, checkpoint directory, asset list (in order)    *)
(* and function aliases equal the arguments.                                 *)
C9_FieldsCopied ==
  op = "CreateExportedModel"
    => /\ ret.has_saver_def = args.saver_def.has_value
       /\ args.saver_def.has_value => ret.saver_def = args.saver_def.value
       /\ ret.init_node_name = args.init_node_name
       /\ ret.checkpoint_dir = args.checkpoint_dir
       /\ Len(ret.asset_file_defs) = Len(args.asset_file_defs)
       /\ \A i \in 1..Len(args.asset_file_defs) :
            ret.asset_file_defs[i] = args.asset_file_defs[i]
       /\ DOMAIN ret.function_aliases = DOMAIN args.function_aliases
       /\ \A k \in DOMAIN args.function_aliases :
            ret.function_aliases[k] = args.function_aliases[k]

C9_Witness ==
  /\ op = "CreateExportedModel"
  /\ args.saver_def.has_value /\ ret.has_saver_def
  /\ Len(args.asset_file_defs) = MaxAssets
  /\ args.asset_file_defs[1] # args.asset_file_defs[MaxAssets]
  /\ Cardinality(DOMAIN args.function_aliases) = 2
  /\ ret.asset_file_defs = args.asset_file_defs

FullyPopulated(saver_def) ==
  /\ saver_def.filename_tensor_name # <<>>
  /\ saver_def.restore_op_name # <<>>
  /\ saver_def.save_tensor_name # <<>>

(* C10 as stated: every descriptor present in a model returned by            *)
(* CreateExportedModel, and every descriptor returned by CreateSaverDef,     *)
(* has its three identifiers non-empty.                                      *)
C10_NeverPartiallyPopulated ==
  /\ (op = "CreateExportedModel" /\ ret.has_saver_def)
       => FullyPopulated(ret.saver_def)
  /\ (CalledSaver /\ ret.ok /\ ret.value.has_value)
       => FullyPopulated(ret.value.value)

(* C10 amended: every descriptor returned by CreateSaverDef has its three    *)
(* identifiers non-empty; CreateExportedModel stores the descriptor it is    *)
(* given without validating it, so the stored descriptor is fully populated  *)
(* exactly when the supplied one is.                                         *)
C10_BuiltDescriptorFullyPopulated ==
  /\ (CalledSaver /\ ret.ok /\ ret.value.has_value)
       => FullyPopulated(ret.value.value)
  /\ (op = "CreateExportedModel" /\ ret.has_saver_def)
       => /\ args.saver_def.has_value
          /\ FullyPopulated(ret.saver_def) <=> FullyPopulated(args.saver_def.value)

C10_Witness ==
  /\ CalledSaver
  /\ ret.ok /\ ret.value.has_value
  /\ Len(args.graph_def) = MaxNodes
  /\ FullyPopulated(ret.value.value)

====
